---- MODULE Spec2Model ----
(***************************************************************************)
(* Model of the About-Me generator (src/code.py): the completion client    *)
(* (check_groq_connection, generate_with_groq), the prompt composer        *)
(* (generate_cv_sections) and the Streamlit session around them (the form  *)
(* submit handler and the Regenerate button).                              *)
(*                                                                         *)
(* Python values.  None is the record None.  A str that the code strips,   *)
(* slices or tests for emptiness (the response body, the completion's      *)
(* content) is a sequence of one-character strings, wrapped as Str(s)      *)
(* where the code may also hold None.  Form fields are TLA+ strings.  A    *)
(* dict is a function from its keys; {} is EmptyDict.  An f-string is the  *)
(* record of the values it interpolates.  Floats are fixed point:          *)
(* temperature and top_p are in units of 1/10000, random.random() in       *)
(* units of 1/100.                                                         *)
(*                                                                         *)
(* The form has 22 fields; the model keeps university (prompt default      *)
(* 'N/A'), designation (prompt default ''), achievements and aspiration.   *)
(* The other 18 are text copied into form_data and the prompt exactly as   *)
(* university or designation are.  The result's timestamp is left out.     *)
(* The Autofill and Copy Text buttons only rerun the script (Autofill also *)
(* presets the widgets' defaults, which the user may overwrite): they are  *)
(* the action OtherInteraction, and a submission may carry any profile.    *)
(***************************************************************************)
EXTENDS Integers, Sequences, FiniteSets, TLC

VARIABLES
    GROQ_API_KEY,        \* os.getenv("GROQ_API_KEY", "")
    phase,               \* "init" before the first script run, then "stopped" | "ready"
    generated_section,   \* st.session_state.generated_section
    form_data,           \* st.session_state.form_data
    variation_count,     \* st.session_state.variation_count
    run,                 \* what the last user action's script run(s) did
    call,                \* the last direct call of one of the three functions
    last_generation      \* history: the session's last successful generation

vars ==
    <<GROQ_API_KEY, phase, generated_section, form_data, variation_count, run, call,
      last_generation>>

session == <<generated_section, form_data, variation_count>>

----------------------------------------------------------------------------
(* Bounds *)

MaxCount == 11       \* cap of the variation counter / variation_number
MaxBodyLen == 101    \* longest non-200 response body

----------------------------------------------------------------------------
(* Python values *)

None == [none |-> TRUE]
Str(s) == [str |-> s]
EmptyDict == [k \in {} |-> ""]
Get(d, k, default) == IF k \in DOMAIN d THEN d[k] ELSE default
DictEq(a, b) == DOMAIN a = DOMAIN b /\ \A k \in DOMAIN a : a[k] = b[k]

Whitespace == {" ", "\n", "\t"}

RECURSIVE lstrip(_)
lstrip(s) == IF s # <<>> /\ Head(s) \in Whitespace THEN lstrip(Tail(s)) ELSE s

RECURSIVE rstrip(_)
rstrip(s) ==
    IF s # <<>> /\ s[Len(s)] \in Whitespace THEN rstrip(SubSeq(s, 1, Len(s) - 1)) ELSE s

strip(s) == rstrip(lstrip(s))

\* s[:n]
Slice(s, n) == SubSeq(s, 1, IF Len(s) < n THEN Len(s) ELSE n)

----------------------------------------------------------------------------
(* Configuration *)

GROQ_API_URL == "https://api.groq.com/openai/v1/chat/completions"
GROQ_MODEL == "llama-3.3-70b-versatile"
MAX_TOKENS == 300
PROBE_MAX_TOKENS == 5
PROBE_TIMEOUT == 10
GENERATE_TIMEOUT == 30
TOP_P == 9500
SNIPPET_LEN == 100

ApiKeys == {"", "gsk_key"}

----------------------------------------------------------------------------
(* The completion service: what requests.post can do *)

NotJson == [notjson |-> TRUE]

Body(n) == [i \in 1..n |-> "x"]
BodyLens == {0, SNIPPET_LEN, MaxBodyLen}
NonOkStatus == {201, 429, 500}

Contents ==
    { <<>>, <<" ", "\n">>, <<" ", "I", " ", "a", "m", "\n">>, <<"O", "k">> }

JsonBodies ==
    { [id |-> "c1"],                                                  \* no 'choices'
      [id |-> "c1", choices |-> <<>>],                                \* empty 'choices'
      [id |-> "c1", choices |-> << [index |-> "0"] >>],               \* no 'message'
      [id |-> "c1", choices |-> << [message |-> [role |-> "assistant"]] >>],  \* no 'content'
      [id |-> "c1", choices |-> << [message |-> [content |-> None]] >> ] }    \* content: null
    \cup { [id |-> "c1", choices |-> << [message |-> [content |-> Str(c)]] >> ] :
             c \in Contents }

Raised(kind) == [kind |-> kind, status_code |-> 0, text |-> <<>>, json |-> NotJson]
Response(code, text, json) ==
    [kind |-> "Response", status_code |-> code, text |-> text, json |-> json]

FailedResponses == { Response(c, Body(n), NotJson) : c \in NonOkStatus, n \in BodyLens }
OkResponses == { Response(200, <<>>, j) : j \in JsonBodies \cup {NotJson} }
Raises == { Raised("Timeout"), Raised("ConnectionError"), Raised("Exception") }

Outcomes == Raises \cup FailedResponses \cup OkResponses

----------------------------------------------------------------------------
(* st.error messages and returned status strings *)

Msg(text, code, body, detail) ==
    [msg |-> text, status_code |-> code, body |-> body, detail |-> detail]

----------------------------------------------------------------------------
(* check_groq_connection *)

not_configured_never == FALSE

\* not GROQ_API_KEY
not_configured == GROQ_API_KEY = ""

Headers == [Authorization |-> <<"Bearer ", GROQ_API_KEY>>, ContentType |-> "application/json"]

test_payload ==
    [model |-> GROQ_MODEL,
     messages |-> << [role |-> "user", content |-> "Hello"] >>,
     max_tokens |-> PROBE_MAX_TOKENS]

Post(payload, timeout) ==
    [url |-> GROQ_API_URL, headers |-> Headers, json |-> payload, timeout |-> timeout]

\* What the function returns, with the requests it posted: [ret, posts].
check_groq_connection(outcome) ==
    IF not_configured
    THEN [ret |-> [ok |-> FALSE,
                   message |-> Msg("API key not configured. Please set GROQ_API_KEY in your environment variables.",
                                   0, <<>>, "")],
          posts |-> <<>>]
    ELSE [ret |->
            CASE outcome.kind = "Response" /\ outcome.status_code = 200 ->
                   [ok |-> TRUE, message |-> Msg("Connected", 0, <<>>, "")]
              [] outcome.kind = "Response" /\ outcome.status_code # 200 ->
                   [ok |-> FALSE,
                    message |-> Msg("Status: {status_code} - {text[:100]}", outcome.status_code,
                                    Slice(outcome.text, SNIPPET_LEN), "")]
              [] outcome.kind = "Timeout" ->
                   [ok |-> FALSE, message |-> Msg("Connection timeout", 0, <<>>, "")]
              [] outcome.kind = "ConnectionError" ->
                   [ok |-> FALSE, message |-> Msg("Connection error", 0, <<>>, "")]
              [] OTHER ->
                   [ok |-> FALSE, message |-> Msg("Error: {str(e)}", 0, <<>>, outcome.kind)],
          posts |-> << Post(test_payload, PROBE_TIMEOUT) >>]

----------------------------------------------------------------------------
(* generate_with_groq *)

payload(prompt, system_prompt, temperature) ==
    [model |-> GROQ_MODEL,
     messages |-> << [role |-> "system", content |-> system_prompt],
                     [role |-> "user", content |-> prompt] >>,
     max_tokens |-> MAX_TOKENS,
     temperature |-> temperature,
     top_p |-> TOP_P]

\* result.get("choices", [{}])[0].get("message", {}).get("content", "").strip()
\* The value, or the exception the expression raises: [raised, value, detail].
ExtractContent(result) ==
    IF result = NotJson
    THEN [raised |-> TRUE, value |-> None, detail |-> "JSONDecodeError"]
    ELSE LET choices == Get(result, "choices", << EmptyDict >>) IN
         IF Len(choices) = 0
         THEN [raised |-> TRUE, value |-> None, detail |-> "list index out of range"]
         ELSE LET message == Get(choices[1], "message", EmptyDict)
                  content == Get(message, "content", Str(<<>>))
              IN  IF content = None
                  THEN [raised |-> TRUE, value |-> None,
                        detail |-> "'NoneType' object has no attribute 'strip'"]
                  ELSE [raised |-> FALSE, value |-> Str(strip(content.str)), detail |-> ""]

requests_post_retry(json) ==
    << Post(json, GENERATE_TIMEOUT), Post(json, GENERATE_TIMEOUT) >>

\* requests.post(GROQ_API_URL, headers=headers, json=payload, timeout=30): the
\* requests that leave the process
requests_post(json) == << Post(json, GENERATE_TIMEOUT) >>

\* What the function returns, the st.error messages it shows and the requests it
\* posted: [ret, errors, posts].
generate_with_groq(prompt, system_prompt, temperature, outcome) ==
    IF not_configured
    THEN [ret |-> None,
          errors |-> << Msg("GROQ_API_KEY not configured", 0, <<>>, "") >>,
          posts |-> <<>>]
    ELSE LET sent == requests_post(payload(prompt, system_prompt, temperature))
         IN
         CASE outcome.kind = "Response" /\ outcome.status_code = 200 ->
                LET x == ExtractContent(outcome.json) IN
                IF x.raised
                THEN [ret |-> None,
                      errors |-> << Msg("Error generating content: {str(e)}", 0, <<>>, x.detail) >>,
                      posts |-> sent]
                ELSE [ret |-> x.value, errors |-> <<>>, posts |-> sent]
          [] outcome.kind = "Response" /\ outcome.status_code # 200 ->
                [ret |-> None,
                 errors |-> << Msg("Groq API returned status code: {status_code}",
                                   outcome.status_code, <<>>, ""),
                               Msg("Response: {text}", 0, outcome.text, "") >>,
                 posts |-> sent]
          [] outcome.kind = "Timeout" ->
                [ret |-> None,
                 errors |-> << Msg("Generation timed out", 0, <<>>, "") >>,
                 posts |-> sent]
          [] outcome.kind = "ConnectionError" ->
                [ret |-> None,
                 errors |-> << Msg("Cannot connect to Groq API", 0, <<>>, "") >>,
                 posts |-> sent]
          [] OTHER ->
                [ret |-> None,
                 errors |-> << Msg("Error generating content: {str(e)}", 0, <<>>, outcome.kind) >>,
                 posts |-> sent]

----------------------------------------------------------------------------
(* generate_cv_sections *)

Aspirations ==
    << "Interested in Job",
       "Interested in studying abroad",
       "Want to serve Family Business",
       "New Start-up (Business)",
       "Work as a freelancer",
       "Want to continue studies in Pakistan" >>

target_market_abroad_only(aspiration) ==
    IF aspiration = "Interested in studying abroad" THEN "International" ELSE "Pakistan"

target_market(aspiration) ==
    IF aspiration \in {"Interested in studying abroad", "Work as a freelancer"}
    THEN "International"
    ELSE "Pakistan"

variation_styles ==
    << "Lead with achievements and quantifiable results. Start with your strongest accomplishment.",
       "Open with your passion and what drives you. Emphasize commitment and enthusiasm.",
       "Begin by highlighting your unique competitive advantages and specialized skills.",
       "Start with your adaptability and how you embrace new challenges and learning.",
       "Open with a problem you solved or impact you created. Focus on outcomes.",
       "Lead with your professional identity and what makes you stand out in your field.",
       "Begin with your career goals and how your background prepares you for them.",
       "Start by describing your professional journey and key milestones.",
       "Open with your technical expertise and how you apply it effectively.",
       "Lead with your collaborative strengths and team contributions." >>

variation_style_off_by_one(variation_number) ==
    variation_styles[((variation_number + 1) % Len(variation_styles)) + 1]

\* variation_styles[variation_number % len(variation_styles)], the list indexed from 0
variation_style(variation_number) ==
    variation_styles[(variation_number % Len(variation_styles)) + 1]

guidance(aspiration) ==
    CASE aspiration = "Interested in studying abroad" ->
           "Emphasize academic achievements, research interests, international aspirations, adaptability, and desire for global education. Highlight qualifications that make them a strong candidate for international universities."
      [] aspiration = "Want to serve Family Business" ->
           "Focus on family business values, loyalty, entrepreneurial mindset, relevant skills for business growth, and commitment to continuing family legacy. Show blend of tradition and innovation."
      [] aspiration = "New Start-up (Business)" ->
           "Highlight entrepreneurial spirit, innovation, problem-solving skills, leadership qualities, risk-taking abilities, and vision for creating new ventures. Show passion for building something new."
      [] aspiration = "Work as a freelancer" ->
           "Emphasize self-motivation, diverse skill set, flexibility, client management abilities, independent work style, and track record of delivering projects. Show versatility and reliability."
      [] aspiration = "Interested in Job" ->
           "Focus on professional qualifications, team collaboration, career growth mindset, organizational skills, and readiness to contribute to company success. Show you're a valuable employee."
      [] aspiration = "Want to continue studies in Pakistan" ->
           "Highlight academic dedication, research interests, commitment to local education system, desire for advanced knowledge, and contributions to Pakistan's academic community."
      [] OTHER -> ""

\* aspiration_guidance += f" {variation_style}"
aspiration_guidance(aspiration, variation_number) ==
    << guidance(aspiration), " ", variation_style(variation_number) >>

system_prompt(data, variation_number) ==
    [target_market |-> target_market(Get(data, "aspiration", "")),
     words |-> 70,
     variation |-> variation_number + 1]

prompt(data, variation_number) ==
    LET aspiration == Get(data, "aspiration", "") IN
    [target_market |-> target_market(aspiration),
     aspiration |-> aspiration,
     aspiration_guidance |-> aspiration_guidance(aspiration, variation_number),
     university |-> Get(data, "university", "N/A"),
     designation |-> Get(data, "designation", ""),
     achievements |-> Get(data, "achievements", ""),
     words |-> 70,
     variation |-> variation_number + 1]

\* 0.85 + (random.random() * 0.15), the draw in 1/100, the result in 1/10000
temperature(draw) == 8500 + (draw * 15)

\* if text:
Truthy(text) == text # None /\ text # Str(<<>>)

\* What the function returns, the st.error messages shown during it and the
\* requests posted during it: [ret, errors, posts].
generate_cv_sections(data, variation_number, draw, outcome) ==
    LET aspiration == Get(data, "aspiration", "")
        g == generate_with_groq(prompt(data, variation_number),
                                system_prompt(data, variation_number),
                                temperature(draw), outcome)
    IN  [ret |-> IF Truthy(g.ret)
                 THEN [text |-> g.ret.str,
                       designation |-> Get(data, "designation", ""),
                       market |-> target_market(aspiration),
                       aspiration |-> aspiration,
                       university |-> Get(data, "university", ""),
                       variation |-> variation_number + 1]
                 ELSE None,
         errors |-> g.errors,
         posts |-> g.posts]

----------------------------------------------------------------------------
(* The Streamlit script *)

\* The script from its top to the form: the API key check and the connectivity
\* probe.  [stopped, errors, posts].
ScriptTop(probe) ==
    IF not_configured
    THEN [stopped |-> TRUE,
          errors |-> << Msg("GROQ_API_KEY not found in environment variables", 0, <<>>, "") >>,
          posts |-> <<>>]
    ELSE LET c == check_groq_connection(probe) IN
         [stopped |-> FALSE,
          errors |-> IF c.ret.ok
                     THEN <<>>
                     ELSE << Msg("Groq API Error: {status}", c.ret.message.status_code,
                                 c.ret.message.body, c.ret.message.msg) >>,
          posts |-> c.posts]

form_changed_never(old, new) == FALSE

form_changed_aspiration_only(old, new) ==
    \/ "aspiration" \notin DOMAIN old
    \/ old["aspiration"] # new["aspiration"]

\* form_data.get('aspiration') != aspiration or form_data != new
form_changed(old, new) ==
    \/ "aspiration" \notin DOMAIN old
    \/ old["aspiration"] # new["aspiration"]
    \/ ~DictEq(old, new)

required_missing_never(achievements) == FALSE

\* not achievements
required_missing(achievements) == achievements = ""

next_count_always(count, section) == count + 1

next_count_never(count, section) == count

\* if generated_section: ... st.session_state.variation_count += 1
next_count(count, section) == IF section # None THEN count + 1 ELSE count

Ran(action, submitted, invocations, variation_number, ret, posts, probes, errors) ==
    [action |-> action, submitted |-> submitted, invocations |-> invocations,
     variation_number |-> variation_number, ret |-> ret, posts |-> posts,
     probes |-> probes, errors |-> errors]

\* The profile a posted generation request carries, and the variation it announces
SentProfile(post) == post.json.messages[2].content
SentVariation(post) == post.json.messages[1].content.variation
SentStyle(post) == post.json.messages[2].content.aspiration_guidance[3]

\* History of the last successful generation: the style directive and the index
\* it was posted with, and whether form_data is still the profile it was made for
\* (no submission has changed the profile since).
Generated(style, variation_number, unchanged) ==
    [style |-> style, variation_number |-> variation_number, unchanged |-> unchanged]

NoGeneration == Generated("", -1, FALSE)

NoRun == Ran("none", EmptyDict, 0, -1, None, <<>>, 0, <<>>)
\* A direct call of one of the three functions: its arguments (data,
\* variation_number), the random draw and the service's answer during it, and, once
\* fn names the function called, what it returned, showed and posted.
Call(fn, data, variation_number, draw, outcome, ret, errors, posts) ==
    [fn |-> fn, data |-> data, variation_number |-> variation_number, draw |-> draw,
     outcome |-> outcome, ret |-> ret, errors |-> errors, posts |-> posts]

NoCall == Call("none", EmptyDict, 0, 0, Raised("none"), None, <<>>, <<>>)

\* What the user and the service can supply
RandomDraws == {0, 99}

\* The profiles a form submission may carry: the selectbox always yields one of
\* the aspirations, the text fields may be empty.
FormAspirations == {"Work as a freelancer", "New Start-up (Business)"}
FormAchievements == {"", "Won X award", "Led a team of 5"}

Profiles ==
    { [university |-> "LUMS", designation |-> "Engineer", achievements |-> a, aspiration |-> asp] :
        a \in FormAchievements, asp \in FormAspirations }

ProbeOutcomes == { Response(200, <<>>, [id |-> "c0"]), Response(500, Body(2), NotJson) }

AppOutcomes ==
    Raises \cup
    { Response(429, Body(2), NotJson),
      Response(200, <<>>, [id |-> "c1", choices |-> << [message |-> [content |-> Str(<<" ", "\n">>)]] >>]),
      Response(200, <<>>, [id |-> "c1", choices |-> << [message |-> [content |-> Str(<<" ", "I", " ", "a", "m", "\n">>)]] >>]) }

Init ==
    /\ GROQ_API_KEY \in ApiKeys
    /\ phase = "init"
    /\ generated_section = None
    /\ form_data = EmptyDict
    /\ variation_count = 0
    /\ run = NoRun
    /\ call = NoCall
    /\ last_generation = NoGeneration

\* The first script run of a session: lines 269-295.
Startup(probe) ==
    /\ phase = "init"
    /\ LET top == ScriptTop(probe) IN
       /\ phase' = IF top.stopped THEN "stopped" ELSE "ready"
       /\ run' = Ran("Startup", EmptyDict, 0, -1, None, <<>>, Len(top.posts), top.errors)
    /\ UNCHANGED <<GROQ_API_KEY, session, call, last_generation>>

\* A rerun that neither submits the form nor regenerates (Autofill, Copy Text).
OtherInteraction(probe) ==
    /\ phase = "ready"
    /\ LET top == ScriptTop(probe) IN
       run' = Ran("Other", EmptyDict, 0, -1, None, <<>>, Len(top.posts), top.errors)
    /\ UNCHANGED <<GROQ_API_KEY, phase, session, call, last_generation>>

\* The form's submit button: lines 372-419, with the rerun of line 419.
Submit(p, probe, draw, outcome) ==
    /\ phase = "ready"
    /\ LET top == ScriptTop(probe) IN
       IF required_missing(p["achievements"])
       THEN /\ run' = Ran("Submit", p, 0, -1, None, <<>>, Len(top.posts),
                          top.errors \o << Msg("Please fill in all required fields (marked with *)",
                                               0, <<>>, "") >>)
            /\ UNCHANGED <<session, last_generation>>
       ELSE LET changed == form_changed(form_data, p)
                count == IF changed THEN 0 ELSE variation_count
                g == generate_cv_sections(p, count, draw, outcome)
            IN  /\ count < MaxCount
                /\ form_data' = p
                /\ variation_count' = next_count(count, g.ret)
                /\ IF g.ret # None
                   THEN /\ generated_section' = g.ret
                        /\ last_generation' = Generated(SentStyle(g.posts[1]), count, TRUE)
                        /\ \E probe2 \in ProbeOutcomes :
                             LET again == ScriptTop(probe2) IN
                             run' = Ran("Submit", p, 1, count, g.ret, g.posts,
                                        Len(top.posts) + Len(again.posts), again.errors)
                   ELSE /\ generated_section' = generated_section
                        /\ last_generation' =
                              [last_generation EXCEPT
                                 !.unchanged = last_generation.unchanged /\ ~changed]
                        /\ run' = Ran("Submit", p, 1, count, g.ret, g.posts,
                                      Len(top.posts), top.errors \o g.errors)
    /\ UNCHANGED <<GROQ_API_KEY, phase, call>>

\* The Regenerate button, drawn only while a result is displayed: lines 422, 454-464.
Regenerate(probe, draw, outcome) ==
    /\ phase = "ready"
    /\ generated_section # None
    /\ LET top == ScriptTop(probe) IN
       IF form_data # EmptyDict
       THEN LET g == generate_cv_sections(form_data, variation_count, draw, outcome)
            IN  /\ variation_count < MaxCount
                /\ variation_count' = next_count(variation_count, g.ret)
                /\ IF g.ret # None
                   THEN /\ generated_section' = g.ret
                        /\ last_generation' =
                              Generated(SentStyle(g.posts[1]), variation_count, TRUE)
                        /\ \E probe2 \in ProbeOutcomes :
                             LET again == ScriptTop(probe2) IN
                             run' = Ran("Regenerate", EmptyDict, 1, variation_count, g.ret,
                                        g.posts, Len(top.posts) + Len(again.posts), again.errors)
                   ELSE /\ UNCHANGED <<generated_section, last_generation>>
                        /\ run' = Ran("Regenerate", EmptyDict, 1, variation_count, g.ret, g.posts,
                                      Len(top.posts), top.errors \o g.errors)
                /\ UNCHANGED form_data
       ELSE /\ run' = Ran("Regenerate", EmptyDict, 0, -1, None, <<>>, Len(top.posts), top.errors)
            /\ UNCHANGED <<session, last_generation>>
    /\ UNCHANGED <<GROQ_API_KEY, phase, call>>

Next ==
    \/ \E probe \in ProbeOutcomes : Startup(probe)
    \/ \E probe \in ProbeOutcomes : OtherInteraction(probe)
    \/ \E p \in Profiles, probe \in ProbeOutcomes, draw \in RandomDraws, outcome \in AppOutcomes :
          Submit(p, probe, draw, outcome)
    \/ \E probe \in ProbeOutcomes, draw \in RandomDraws, outcome \in AppOutcomes :
          Regenerate(probe, draw, outcome)

Spec == Init /\ [][Next]_vars

----------------------------------------------------------------------------
(* The functions called directly, on arguments drawn in the initial state *)

\* data: complete profiles with every aspiration, and dicts with keys missing
FnData ==
    { [university |-> "LUMS", designation |-> "Engineer", achievements |-> a,
       aspiration |-> Aspirations[i]] : a \in {"", "Won X award"}, i \in DOMAIN Aspirations }
    \cup { EmptyDict,
           [university |-> "LUMS", designation |-> "Engineer", achievements |-> "Won X award"],
           [university |-> "LUMS", aspiration |-> "Work as a freelancer"] }

FnInit ==
    /\ GROQ_API_KEY \in ApiKeys
    /\ phase = "init"
    /\ generated_section = None
    /\ form_data = EmptyDict
    /\ variation_count = 0
    /\ run = NoRun
    /\ last_generation = NoGeneration
    /\ call \in { Call("pending", d, n, r, o, None, <<>>, <<>>) :
                    d \in FnData, n \in 0..MaxCount, r \in RandomDraws, o \in Outcomes }

CallCheckGroqConnection ==
    /\ call.fn = "pending"
    /\ LET c == check_groq_connection(call.outcome) IN
       call' = [call EXCEPT !.fn = "check_groq_connection", !.ret = c.ret, !.posts = c.posts]
    /\ UNCHANGED <<GROQ_API_KEY, phase, session, run, last_generation>>

\* temperature is left to its default, 0.9
CallGenerateWithGroq ==
    /\ call.fn = "pending"
    /\ LET g == generate_with_groq(prompt(call.data, call.variation_number),
                                   system_prompt(call.data, call.variation_number),
                                   9000, call.outcome) IN
       call' = [call EXCEPT !.fn = "generate_with_groq", !.ret = g.ret,
                            !.errors = g.errors, !.posts = g.posts]
    /\ UNCHANGED <<GROQ_API_KEY, phase, session, run, last_generation>>

CallGenerateCvSections ==
    /\ call.fn = "pending"
    /\ LET g == generate_cv_sections(call.data, call.variation_number, call.draw, call.outcome) IN
       call' = [call EXCEPT !.fn = "generate_cv_sections", !.ret = g.ret,
                            !.errors = g.errors, !.posts = g.posts]
    /\ UNCHANGED <<GROQ_API_KEY, phase, session, run, last_generation>>

FnNext ==
    \/ \E probe \in ProbeOutcomes : Startup(probe)
    \/ CallCheckGroqConnection
    \/ CallGenerateWithGroq
    \/ CallGenerateCvSections

FnSpec == FnInit /\ [][FnNext]_vars

----------------------------------------------------------------------------
(* Properties *)

GenerationFns == {"generate_with_groq", "generate_cv_sections"}

\* C1: a submission with an empty achievements field invokes generate_cv_sections
\* zero times, posts nothing and leaves form_data, variation_count and
\* generated_section as they were; so every generation request posted by a submit or
\* a regenerate carries a profile whose achievements are not empty.
C1_EmptyAchievementsBlocked ==
    [][ /\ (run'.action = "Submit" /\ run'.submitted["achievements"] = "")
              => /\ run'.invocations = 0
                 /\ run'.posts = <<>>
                 /\ UNCHANGED session
        /\ \A i \in DOMAIN run'.posts : SentProfile(run'.posts[i]).achievements # ""
      ]_vars

C1_Witness ==
    /\ run.action = "Submit"
    /\ run.submitted["achievements"] = ""
    /\ generated_section # None
    /\ variation_count > 0

\* C2: with no API key nothing is ever posted: check_groq_connection returns
\* (False, message), generate_with_groq returns None, both without a request, and
\* the script stops at its top, after which no submit or regenerate is possible.
C2_NoKeyNoRequest ==
    GROQ_API_KEY = "" =>
        /\ call.posts = <<>>
        /\ run.posts = <<>> /\ run.probes = 0 /\ run.invocations = 0
        /\ call.fn = "check_groq_connection" =>
              /\ call.ret.ok = FALSE
              /\ call.ret.message.msg # "Connected"
        /\ call.fn = "generate_with_groq" => call.ret = None
        /\ phase # "init" => (phase = "stopped" /\ ~ENABLED Next)

C2_Witness ==
    /\ GROQ_API_KEY = ""
    /\ phase = "stopped"
    /\ call.fn = "generate_with_groq"
    /\ call.outcome.kind = "Response" /\ call.outcome.status_code = 200

\* C3: each invocation of the generation, whatever its outcome, posts exactly one
\* request; a user action invokes it at most once, and only a submit or a
\* regenerate invokes it, so no failure is followed by a retry.
C3_OneRequestPerInvocation ==
    /\ run.invocations \in {0, 1}
    /\ Len(run.posts) = run.invocations
    /\ run.invocations = 1 => run.action \in {"Submit", "Regenerate"}

C3_Witness ==
    /\ run.action = "Regenerate"
    /\ run.invocations = 1
    /\ run.ret = None
    /\ Len(run.errors) > 0
    /\ run.errors[Len(run.errors)].msg = "Generation timed out"
    /\ Len(run.posts) = 1

\* C4: whenever generate_cv_sections returns None, an error message for the
\* failure has been shown, whatever the completion call's outcome.
C4_NoneMeansReportedFailure ==
    (call.fn = "generate_cv_sections" /\ call.ret = None) => Len(call.errors) > 0

\* C5: for every non-200 response, on the connectivity check and on the generation
\* path, what is surfaced names the status code and carries of the response body a
\* prefix of at most 100 characters.
C5_StatusAndSnippet ==
    (GROQ_API_KEY # "" /\ call.outcome.kind = "Response" /\ call.outcome.status_code # 200) =>
        /\ call.fn = "check_groq_connection" =>
              /\ call.ret.message.status_code = call.outcome.status_code
              /\ Len(call.ret.message.body) <= 100
              /\ call.ret.message.body = Slice(call.outcome.text, Len(call.ret.message.body))
        /\ call.fn \in GenerationFns =>
              /\ \E i \in DOMAIN call.errors :
                    call.errors[i].status_code = call.outcome.status_code
              /\ \A i \in DOMAIN call.errors :
                    /\ Len(call.errors[i].body) <= 100
                    /\ call.errors[i].body = Slice(call.outcome.text, Len(call.errors[i].body))

\* The well-formed 200 responses that lack an expected field
LacksField(json) ==
    \/ "choices" \notin DOMAIN json
    \/ Len(json["choices"]) = 0
    \/ "message" \notin DOMAIN json["choices"][1]
    \/ "content" \notin DOMAIN json["choices"][1]["message"]

\* C6: for every well-formed 200 response that lacks 'choices', has an empty
\* 'choices', a first choice without 'message' or a message without 'content',
\* generate_with_groq returns the empty string and reports no failure.
C6_MissingFieldsGiveEmptyString ==
    ( /\ call.fn = "generate_with_groq"
      /\ GROQ_API_KEY # ""
      /\ call.outcome.kind = "Response" /\ call.outcome.status_code = 200
      /\ call.outcome.json # NotJson
      /\ LacksField(call.outcome.json) )
    => (call.ret = Str(<<>>) /\ call.errors = <<>>)

\* C7: a valid submission whose profile differs in content from the stored
\* form_data runs the generation with variation index 0; a valid submission whose
\* content equals the stored form_data, and every regenerate, run it with the
\* current variation_count; the request posted announces that index plus one.
C7_ResetOnContentChange ==
    [][ /\ (run'.action = "Submit" /\ run'.invocations = 1) =>
              /\ run'.variation_number =
                    IF DictEq(form_data, run'.submitted) THEN variation_count ELSE 0
              /\ SentVariation(run'.posts[1]) = run'.variation_number + 1
        /\ (run'.action = "Regenerate" /\ run'.invocations = 1) =>
              /\ run'.variation_number = variation_count
              /\ SentVariation(run'.posts[1]) = run'.variation_number + 1
              /\ UNCHANGED form_data
      ]_vars

\* A changed profile was submitted when the counter stood at 2 or more: the
\* generation ran with index 0 and failed, leaving the earlier result in place.
C7_Witness ==
    /\ run.action = "Submit"
    /\ run.invocations = 1
    /\ run.variation_number = 0
    /\ run.ret = None
    /\ generated_section # None
    /\ generated_section.variation >= 2
    /\ generated_section.aspiration = form_data["aspiration"]
    /\ generated_section.aspiration = "Work as a freelancer"

\* C8: the counter grows only by a successful generation, and then by exactly one,
\* to the index used plus one; a generation that returns None does not increment
\* it; it is never negative.
C8_IncrementOnlyOnSuccess ==
    [][ /\ variation_count' >= 0
        /\ variation_count' > variation_count =>
              /\ run'.invocations = 1
              /\ run'.ret # None
              /\ variation_count' = variation_count + 1
        /\ (run'.invocations = 1 /\ run'.ret # None) =>
              variation_count' = run'.variation_number + 1
        /\ (run'.invocations = 1 /\ run'.ret = None) =>
              variation_count' = run'.variation_number
        /\ run'.invocations = 0 => variation_count' = variation_count
      ]_vars

C8_Witness ==
    /\ run.action = "Regenerate"
    /\ run.invocations = 1
    /\ run.ret = None
    /\ variation_count = 3
    /\ generated_section # None
    /\ generated_section.variation = 3

\* C9: for every variation index n >= 0, every profile and every random draw, the
\* style directive the composer puts into the prompt is entry n mod 10 (from 0) of
\* the ordered list of 10 directives.
C9_StyleByModulo ==
    (call.fn = "generate_cv_sections" /\ GROQ_API_KEY # "") =>
        /\ Len(variation_styles) = 10
        /\ SentStyle(call.posts[1]) = variation_styles[(call.variation_number % 10) + 1]
        /\ call.variation_number = 3 =>
              SentStyle(call.posts[1]) =
                 "Start with your adaptability and how you embrace new challenges and learning."

C9_Witness ==
    /\ call.fn = "generate_cv_sections"
    /\ GROQ_API_KEY # ""
    /\ call.variation_number = 10
    /\ call.draw = 99
    /\ SentStyle(call.posts[1]) = variation_styles[1]

\* C10: the market is 'International' exactly when the aspiration is 'Interested in
\* studying abroad' or 'Work as a freelancer', and 'Pakistan' for the four other
\* aspirations and for a missing one; both prompts and the returned result carry it.
C10_MarketClassification ==
    (call.fn = "generate_cv_sections" /\ GROQ_API_KEY # "") =>
        LET aspiration == Get(call.data, "aspiration", "")
            market == SentProfile(call.posts[1]).target_market
        IN  /\ market \in {"International", "Pakistan"}
            /\ market = "International" <=>
                  aspiration \in {"Interested in studying abroad", "Work as a freelancer"}
            /\ call.posts[1].json.messages[1].content.target_market = market
            /\ call.ret # None => (call.ret.market = market /\ call.ret.aspiration = aspiration)

C10_Witness ==
    /\ call.fn = "generate_cv_sections"
    /\ call.ret # None
    /\ Get(call.data, "aspiration", "") = "Work as a freelancer"
    /\ call.ret.market = "International"

\* C11: while the profile is unchanged since the last successful generation, the
\* next successful generation (a same-content resubmit or a regenerate) is posted
\* with the index incremented by one and with a style directive other than the one
\* posted before; and the directive of any generation differs from that of every
\* other index less than 10 away.
C11_NoRepeatedStyle ==
    [][ /\ ( /\ run'.invocations = 1
             /\ run'.ret # None
             /\ last_generation.unchanged
             /\ DictEq(form_data', form_data) )
           => /\ run'.variation_number = last_generation.variation_number + 1
              /\ SentStyle(run'.posts[1]) # last_generation.style
        /\ run'.invocations = 1 =>
              \A m \in 0..MaxCount :
                 ( /\ m # run'.variation_number
                   /\ m - run'.variation_number < 10
                   /\ run'.variation_number - m < 10 )
                 => SentStyle(run'.posts[1]) # variation_style(m)
      ]_vars

\* The generation with index 10 succeeded right after the one with index 9, for
\* the same profile: the list has wrapped around.
C11_Witness ==
    /\ run.action = "Regenerate"
    /\ run.ret # None
    /\ run.variation_number = 10
    /\ last_generation.unchanged
    /\ last_generation.style = variation_styles[1]
    /\ variation_count = 11

\* C12 as stated: whenever a result is stored, its variation number equals
\* variation_count and its aspiration equals that of form_data.
C12_ResultConsistent ==
    generated_section # None =>
        /\ generated_section.variation = variation_count
        /\ generated_section.aspiration = Get(form_data, "aspiration", "")

\* C12 as amended: whenever a result is stored, it is that of the last successful
\* generation; while no submission has changed the profile since, its variation
\* number equals variation_count and its aspiration equals that of form_data; once
\* a changed profile was submitted and its generation failed, variation_count is 0
\* and below the result's variation number until a generation succeeds.
C12_ResultConsistentUnlessReset ==
    generated_section # None =>
        /\ generated_section.variation = last_generation.variation_number + 1
        /\ IF last_generation.unchanged
           THEN /\ generated_section.variation = variation_count
                /\ generated_section.aspiration = Get(form_data, "aspiration", "")
           ELSE /\ variation_count = 0
                /\ generated_section.variation > variation_count

\* A same-content resubmission failed: the stored result still agrees with the
\* counter and the profile.
C12_Witness ==
    /\ generated_section # None
    /\ last_generation.unchanged
    /\ run.action = "Submit"
    /\ run.invocations = 1
    /\ run.ret = None
    /\ variation_count = 2
    /\ generated_section.aspiration = "New Start-up (Business)"

====
